---- MODULE Spec2Model ----
(***************************************************************************)
(* A model of the NomXML pull parser (nomxml.cpp / nomxml.h).              *)
(*                                                                         *)
(* Characters are one-character strings, texts (tokens, names, values, the *)
(* document) are sequences of characters.  The error text is a sequence    *)
(* too: each literal message of the source is one element, the tokens the  *)
(* source appends to it are appended character by character.               *)
(*                                                                         *)
(* The parser object is the record Parser (one field per data member);     *)
(* every member function is an operator from a parser record to a parser   *)
(* record or to a result record [p, ret, node, hang].  hang = TRUE says    *)
(* that the call does not return: a loop of the source repeats an          *)
(* iteration that changes nothing the iteration reads.                     *)
(***************************************************************************)
EXTENDS Integers, Sequences, FiniteSets, TLC

VARIABLES
    m_Stack,             \* XmlParser::m_Stack
    m_PriorWasEmptyTag,  \* XmlParser::m_PriorWasEmptyTag
    m_Reader,            \* XmlParser::m_Reader (the input source object)
    m_DataSize,          \* XmlParser::m_DataSize
    m_DataPos,           \* XmlParser::m_DataPos
    m_ErrorInfo,         \* XmlParser::m_ErrorInfo
    m_CurChar,           \* XmlParser::m_CurChar
    m_CurToken,          \* XmlParser::m_CurToken
    ptrref,              \* the caller's node pointer handed to NextNode
    began,               \* what BeginParsingFrom... returned: "no" call yet, "true", "false";
                         \* "reset" when Reset has been called since
    ret,                 \* what the last NextNode call returned: "none", "true", "false"
    events,              \* the nodes NextNode has returned in this session, in order
    calls,               \* number of NextNode calls made in this session
    hung,                \* TRUE when a NextNode call was entered that never returns
    sessions,            \* number of sessions started on the parser
    fp,                  \* the FILE the caller opened for its own input source object
    xml2,                \* a second parser instance of the caller, with its calls' results
    tokens,              \* number of NextToken calls made on their own (SpecToken)
    build,               \* how the compiler represents char and wchar_t (SpecBytes)
    readc                \* a byte and what c holds after each built-in ReadChar of it

vars == <<m_Stack, m_PriorWasEmptyTag, m_Reader, m_DataSize, m_DataPos, m_ErrorInfo,
          m_CurChar, m_CurToken, ptrref, began, ret, events, calls, hung, sessions, fp, xml2,
          tokens, build, readc>>

-----------------------------------------------------------------------------
(* Bounds of the model.                                                    *)

\* A document is a concatenation of at most MaxPieces pieces.
MaxPieces == 3

\* The caller makes at most MaxCalls NextNode calls in a session.
MaxCalls == 8

\* A begin tag of TagDocs is written with at most MaxAttribs attributes.
MaxAttribs == 2

\* The caller of SpecSessions starts at most MaxSessions sessions on its parser.
MaxSessions == 2

\* The texts NextToken is run on in SpecToken have at most MaxTokenLen characters.
MaxTokenLen == 4

\* At most MaxTokens NextToken calls are made on a text in SpecToken.
MaxTokens == 3

-----------------------------------------------------------------------------
(* Characters.                                                             *)

\* The value 0 of m_CurChar: no character available.
NUL == "NUL"

\* iswspace in the "C" locale (the vertical tab has no TLA+ string escape).
iswspace(c) == c \in {" ", "\t", "\n", "\r", "\f"}

xmlDelimsWithEquals == {"=", ">", "<", "?", " ", "\r", "\n", "\t"}

xmlDelimsWithSlash == {"/", ">", "<", "?", " ", "\r", "\n", "\t"}

\* IsWhiteSpace that takes every text for blank.
IsWhiteSpace_Always(text) == TRUE

\* IsWhiteSpace with the empty text taken for non-blank.
IsWhiteSpace_NonEmpty(text) == text # <<>> /\ \A i \in 1..Len(text) : iswspace(text[i])

\* IsWhiteSpace(text): every character of text is whitespace.
IsWhiteSpace(text) == \A i \in 1..Len(text) : iswspace(text[i])

Front(s) == SubSeq(s, 1, Len(s) - 1)

Last(s) == s[Len(s)]

-----------------------------------------------------------------------------
(* Nodes and stack entries.                                                *)

XmlNode(type, name, value, offset, attribs) ==
    [type |-> type, name |-> name, value |-> value, offset |-> offset, attribs |-> attribs]

\* A null node pointer.
NoNode == XmlNode("null", <<>>, <<>>, 0, <<>>)

XmlBeginNode == XmlNode("Begin", <<>>, <<>>, 0, <<>>)

XmlValueNode == XmlNode("Value", <<>>, <<>>, 0, <<>>)

XmlEndNode == XmlNode("End", <<>>, <<>>, 0, <<>>)

XmlElementBase == [m_Begin |-> XmlBeginNode, m_Value |-> XmlValueNode, m_End |-> XmlEndNode]

XmlAttribute(name, value) == [m_Name |-> name, m_Value |-> value]

-----------------------------------------------------------------------------
(* Input sources.  data is the medium's content, pos the read cursor, eof  *)
(* the stream's end-of-file indicator (file), open whether the FILE* is    *)
(* non-null (file).  The caller's source object ("interface") holds a      *)
(* FILE* to a FILE the caller opened: its record carries that FILE's       *)
(* state while a member function runs on it.                               *)

NoReader == [kind |-> "none", data |-> <<>>, pos |-> 0, eof |-> FALSE, open |-> FALSE]

XmlMemoryInputInterface(data) ==
    [kind |-> "memory", data |-> data, pos |-> 0, eof |-> FALSE, open |-> FALSE]

XmlFileInputInterface(data) ==
    [kind |-> "file", data |-> data, pos |-> 0, eof |-> FALSE, open |-> TRUE]

\* A FILE as fopen returns it, over the content data.
OpenedFile(data) == [data |-> data, pos |-> 0, eof |-> FALSE, open |-> TRUE]

\* No FILE: the caller's FILE* is null.
NoFile == [data |-> <<>>, pos |-> 0, eof |-> FALSE, open |-> FALSE]

\* The caller's source object over the FILE f.  Its Clone is the same record:
\* the copy holds the same FILE*.
MyXmlFileInputInterface(f) ==
    [kind |-> "interface", data |-> f.data, pos |-> f.pos, eof |-> f.eof, open |-> f.open]

\* The caller's FILE f after the source object r has been used: the FILE of r
\* when r is a copy of the caller's object.
FileOf(r, f) ==
    IF r.kind = "interface"
    THEN [data |-> r.data, pos |-> r.pos, eof |-> r.eof, open |-> r.open]
    ELSE f

GetFileLength(r) ==
    IF r.kind # "memory" /\ ~r.open THEN 0 ELSE Len(r.data)

\* The input source after GetFileLength: fseek(m_File, 0, SEEK_SET) leaves the
\* FILE at its start with the end-of-file indicator cleared.
SeekToStart(r) ==
    IF r.kind # "memory" /\ r.open THEN [r EXCEPT !.pos = 0, !.eof = FALSE] ELSE r

\* The value ReadChar returns.
ReadCharOk(r) ==
    IF r.kind = "memory" THEN r.pos < Len(r.data)
    ELSE r.open /\ r.pos < Len(r.data)

\* The character ReadChar stores when it succeeds.  The characters of the
\* documents are of the codes 0..127, which both built-in readers deliver
\* as they are (FileReadChar, MemoryReadChar below).
ReadCharValue(r) == r.data[r.pos + 1]

\* The input source after a ReadChar call: a failed fread sets the stream's
\* end-of-file indicator, a failed memory read changes nothing.
ReadChar(r) ==
    IF ReadCharOk(r) THEN [r EXCEPT !.pos = @ + 1]
    ELSE IF r.kind # "memory" /\ r.open THEN [r EXCEPT !.eof = TRUE]
    ELSE r

EndOfFile(r) ==
    IF r.kind = "memory" THEN r.pos > Len(r.data)
    ELSE ~r.open \/ r.eof

ForceClose(r) == [r EXCEPT !.open = FALSE]

\* The bytes of an 8-bit input, and the representations a compiler may give
\* the types of ReadChar: plain char is signed or unsigned, wchar_t has 16 or
\* 32 bits and is signed or unsigned. A 32-bit unsigned wchar_t comes with
\* the unsigned plain char of its platforms.
Bytes == 0..255

Builds ==
    { bld \in [charSigned : BOOLEAN, wcharBits : {16, 32}, wcharSigned : BOOLEAN] :
        (bld.wcharBits = 32 /\ ~bld.wcharSigned) => ~bld.charSigned }

NoBuild == [charSigned |-> FALSE, wcharBits |-> 0, wcharSigned |-> FALSE]

\* static_cast<wchar_t>(v) of a char value v: kept by a signed wchar_t,
\* reduced modulo 2^16 by a 16-bit unsigned one; the 32-bit unsigned one only
\* meets values of 0..255.
ToWChar(v, bld) ==
    IF bld.wcharSigned THEN v
    ELSE IF bld.wcharBits = 16 THEN (v + 65536) % 65536
    ELSE v

\* The byte b read through unsigned char (fread into cc).
AsUnsignedChar(b) == b

\* The byte b read through plain char (m_Data[m_DataPos]).
AsPlainChar(b, bld) == IF bld.charSigned /\ b >= 128 THEN b - 256 ELSE b

\* c after XmlFileInputInterface::ReadChar has read the byte b.
FileReadChar(b, bld) == ToWChar(AsUnsignedChar(b), bld)

\* c after XmlMemoryInputInterface::ReadChar has read the byte b.
MemoryReadChar(b, bld) == ToWChar(AsPlainChar(b, bld), bld)

NoRead == [byte |-> -1, file |-> 0, memory |-> 0]

-----------------------------------------------------------------------------
(* The parser object.                                                      *)

Parser ==
    [stack |-> m_Stack, prior |-> m_PriorWasEmptyTag, reader |-> m_Reader,
     size |-> m_DataSize, pos |-> m_DataPos, err |-> m_ErrorInfo,
     cur |-> m_CurChar, tok |-> m_CurToken]

\* XmlParser::XmlParser
Constructed ==
    [stack |-> <<>>, prior |-> FALSE, reader |-> NoReader, size |-> 0, pos |-> 0,
     err |-> <<>>, cur |-> NUL, tok |-> <<>>]

EndOfDocument(p) ==
    IF p.reader.kind = "none" THEN TRUE ELSE EndOfFile(p.reader)

CurPosition(p) == p.pos

\* The value NextChar returns.
NextCharOk(p) == p.reader.kind # "none" /\ ReadCharOk(p.reader)

\* NextChar without m_DataPos++.
NextChar_NoCount(p) ==
    IF p.reader.kind = "none" THEN [p EXCEPT !.cur = NUL]
    ELSE IF ~ReadCharOk(p.reader)
         THEN [p EXCEPT !.cur = NUL, !.reader = ReadChar(p.reader)]
         ELSE [p EXCEPT !.cur = ReadCharValue(p.reader),
                        !.reader = ReadChar(p.reader)]

NextChar(p) ==
    IF p.reader.kind = "none" THEN [p EXCEPT !.cur = NUL]
    ELSE IF ~ReadCharOk(p.reader)
         THEN [p EXCEPT !.cur = NUL, !.reader = ReadChar(p.reader)]
         ELSE [p EXCEPT !.cur = ReadCharValue(p.reader),
                        !.reader = ReadChar(p.reader),
                        !.pos = @ + 1]

\* while (iswspace(CurChar())) NextChar();
RECURSIVE EatWhiteSpace(_)
EatWhiteSpace(p) ==
    IF iswspace(p.cur) THEN EatWhiteSpace(NextChar(p)) ELSE p

\* while (CurChar() != 0 && CurChar() is not in stops) { m_CurToken += CurChar(); NextChar(); }
RECURSIVE AccumulateToken(_, _)
AccumulateToken(p, stops) ==
    IF p.cur # NUL /\ p.cur \notin stops
    THEN AccumulateToken(NextChar([p EXCEPT !.tok = Append(@, p.cur)]), stops)
    ELSE p

\* The closing quote is left as the current character.
EatClosingQuote_Keep(p, q) == p

\* if (CurChar() == q) NextChar();   (the closing quote)
EatClosingQuote(p, q) == IF p.cur = q THEN NextChar(p) ELSE p

\* The quoted branch of NextToken, for the quote character q.
QuotedToken(p, q) == EatClosingQuote(AccumulateToken(NextChar(p), {q}), q)

\* How we scan the token depends on if it's quoted or not.
ScanToken(p, delims) ==
    IF p.cur = "\"" THEN QuotedToken(p, "\"")
    ELSE IF p.cur = "'" THEN QuotedToken(p, "'")
    ELSE AccumulateToken(p, delims)

\* The parser after NextToken(delims).
NextToken(p, delims) ==
    EatWhiteSpace(ScanToken(EatWhiteSpace([p EXCEPT !.tok = <<>>]), delims))

\* The value NextToken returns, for the parser as NextToken leaves it.
NextTokenOk(p) == ~(p.tok = <<>> /\ EndOfDocument(p))

-----------------------------------------------------------------------------
(* Results of the node-parsing member functions.                           *)

Returns(p, node) == [p |-> p, ret |-> TRUE, node |-> node, hang |-> FALSE]

Fails(p) == [p |-> p, ret |-> FALSE, node |-> NoNode, hang |-> FALSE]

FailsWith(p, text) == Fails([p EXCEPT !.err = text])

Hangs(p) == [p |-> p, ret |-> FALSE, node |-> NoNode, hang |-> TRUE]

-----------------------------------------------------------------------------
(* ParseTagValueNode.                                                      *)

\* while (CurChar() != 0 && CurChar() != '<') { token += CurChar(); NextChar(); }
\* The result is [p, token].
RECURSIVE AccumulateValue(_, _)
AccumulateValue(p, token) ==
    IF p.cur # NUL /\ p.cur # "<"
    THEN AccumulateValue(NextChar(p), Append(token, p.cur))
    ELSE [p |-> p, token |-> token]

\* SetTopValue without celm.m_Value.m_Name = celm.m_Begin.m_Name.
SetTopValue_NoName(stack, token) ==
    [stack EXCEPT ![Len(stack)].m_Value.value = token]

\* The stack after the value text has been stored in its top entry.
SetTopValue(stack, token) ==
    [stack EXCEPT ![Len(stack)].m_Value.name = stack[Len(stack)].m_Begin.name,
                  ![Len(stack)].m_Value.value = token]

\* celm.m_Value is set and a copy of it is returned.
ReturnsTopValue(p) == Returns(p, Last(p.stack).m_Value)

\* ValueOfText without the IsWhiteSpace check.
ValueOfText_NoCheck(a) ==
    IF a.p.stack = <<>>
    THEN FailsWith(a.p, <<"Unexpected data outside of all tags:  '">>
                         \o a.token \o <<"'">>)
    ELSE ReturnsTopValue([a.p EXCEPT !.stack = SetTopValue(@, a.token)])

\* ParseTagValueNode from the check of the stack on; a is [p, token].
ValueOfText(a) ==
    IF a.p.stack = <<>>
    THEN IF ~IsWhiteSpace(a.token)
         THEN FailsWith(a.p, <<"Unexpected data outside of all tags:  '">>
                              \o a.token \o <<"'">>)
         ELSE Fails(a.p)
    ELSE ReturnsTopValue([a.p EXCEPT !.stack = SetTopValue(@, a.token)])

ParseTagValueNode(p, prefix) == ValueOfText(AccumulateValue(p, prefix))

-----------------------------------------------------------------------------
(* ParseEndTagNode.                                                        *)

\* The lower-case form of a text over the model's letters.
ToLower(text) == [i \in 1..Len(text) |-> IF text[i] = "A" THEN "a" ELSE text[i]]

\* SameName with a comparison that ignores case (_wcsicmp).
SameName_NoCase(token, name) == ToLower(token) = ToLower(name)

\* wcscmp(token, name) == 0
SameName(token, name) == token = name

\* MatchEndTag without m_Stack.erase(...).
MatchEndTag_NoPop(p, token) ==
    IF p.stack = <<>>
    THEN FailsWith(p, <<"Unexpected end tag outside of all tags:  ">> \o token)
    ELSE IF ~SameName(token, Last(p.stack).m_Begin.name)
    THEN FailsWith(p, <<"Mismatched end tag, found '">> \o token
                       \o <<"', expected '">> \o Last(p.stack).m_Begin.name
                       \o <<"'">>)
    ELSE Returns(p, [Last(p.stack).m_End EXCEPT !.name = Last(p.stack).m_Begin.name])

\* ParseEndTagNode from the check of the stack on, the '>' eaten.
MatchEndTag(p, token) ==
    IF p.stack = <<>>
    THEN FailsWith(p, <<"Unexpected end tag outside of all tags:  ">> \o token)
    ELSE IF ~SameName(token, Last(p.stack).m_Begin.name)
    THEN FailsWith(p, <<"Mismatched end tag, found '">> \o token
                       \o <<"', expected '">> \o Last(p.stack).m_Begin.name
                       \o <<"'">>)
    ELSE Returns([p EXCEPT !.stack = Front(@)],
                 [Last(p.stack).m_End EXCEPT !.name = Last(p.stack).m_Begin.name])

\* ParseEndTagNode after its NextToken call.
EndTagOfToken(p) ==
    IF ~NextTokenOk(p)
    THEN FailsWith(p, <<"Unexpected end of input.">>)
    ELSE IF p.cur # ">"
    THEN FailsWith(p, <<"Expected '>' at end of tag:  ">> \o p.tok)
    ELSE MatchEndTag(NextChar(p), p.tok)

ParseEndTagNode(p) == EndTagOfToken(NextToken(NextChar(p), xmlDelimsWithEquals))

-----------------------------------------------------------------------------
(* Comments and marked sections.  Both return the parser; ParseBangTag     *)
(* ignores their boolean result.                                           *)

\* if (!NextChar()) { m_ErrorInfo = L"Unexpected end of input."; return false; }
NextCharOrError(p) ==
    IF ~NextCharOk(p)
    THEN [NextChar(p) EXCEPT !.err = <<"Unexpected end of input.">>]
    ELSE NextChar(p)

RECURSIVE EatComment(_)

\* EatComment after "--" with the next character current.
EatCommentDashDash(p) ==
    IF p.cur = ">" THEN NextCharOrError(p) ELSE EatComment(p)

\* EatComment after one '-' with the next character current.
EatCommentDash(p) ==
    IF p.cur = "-" THEN EatCommentDashDash(NextChar(p)) ELSE EatComment(p)

EatComment(p) ==
    IF p.cur = "-" THEN EatCommentDash(NextChar(p))
    ELSE IF ~NextCharOk(p) THEN NextCharOrError(p)
    ELSE EatComment(NextChar(p))

RECURSIVE EatMarkedSection(_)

\* EatMarkedSection after "]]" with the next character current.
EatMarkedSectionBrackets(p) ==
    IF p.cur = ">" THEN NextCharOrError(p) ELSE EatMarkedSection(p)

\* EatMarkedSection after one ']' with the next character current.
EatMarkedSectionBracket(p) ==
    IF p.cur = "]" THEN EatMarkedSectionBrackets(NextChar(p)) ELSE EatMarkedSection(p)

EatMarkedSection(p) ==
    IF p.cur = "]" THEN EatMarkedSectionBracket(NextChar(p))
    ELSE IF ~NextCharOk(p) THEN NextCharOrError(p)
    ELSE EatMarkedSection(NextChar(p))

-----------------------------------------------------------------------------
(* ParseBeginTagNode.                                                      *)

\* TagOffset that leaves out the character after the '<', which is read already.
TagOffset_OneBehind(p) == p.pos - 1

\* size_t tagoffset = m_DataPos - 2;  (m_DataPos is 1 only when the '<' is the
\* whole input; the tag then fails or never ends, and the offset is not seen)
TagOffset(p) == p.pos - 2

\* One iteration of the attribute loop has changed nothing the loop reads.
SameInput(a, b) == a.cur = b.cur /\ a.pos = b.pos /\ a.reader = b.reader

\* if (CurChar() == '=') { NextChar(); NextToken(xmlDelimsWithEquals); att.m_Value = CurToken(); }
\* The result is [p, name, hasValue], for the parser p after the attribute's name token.
AttributeValue(p) ==
    IF p.cur = "="
    THEN [p |-> NextToken(NextChar(p), xmlDelimsWithEquals), name |-> p.tok, hasValue |-> TRUE]
    ELSE [p |-> p, name |-> p.tok, hasValue |-> FALSE]

\* The attribute an iteration of the loop appends; v is the result of AttributeValue.
AttributeOf(v) == XmlAttribute(v.name, IF v.hasValue THEN v.p.tok ELSE <<>>)

RECURSIVE ParseAttributes(_, _)

\* The end of one iteration, begun with the parser p, of the attribute loop.
NextAttribute(p, v, attribs) ==
    IF SameInput(v.p, p)
    THEN [p |-> v.p, attribs |-> attribs, hang |-> TRUE]
    ELSE ParseAttributes(v.p, Append(attribs, AttributeOf(v)))

\* The attribute loop; the result is [p, attribs, hang].
ParseAttributes(p, attribs) ==
    IF p.cur \in {"/", ">", "?"}
    THEN [p |-> p, attribs |-> attribs, hang |-> FALSE]
    ELSE NextAttribute(p, AttributeValue(NextToken(p, xmlDelimsWithEquals)), attribs)

\* NewElement without elm.m_End.m_Name = elm.m_Begin.m_Name.
NewElement_NoEndName(name, tagoffset, attribs, empty) ==
    [XmlElementBase EXCEPT !.m_Begin.name = name,
                           !.m_Begin.offset = tagoffset,
                           !.m_Begin.attribs = attribs]

\* The element pushed for a begin tag; empty says that elm.m_End.m_Name was set.
NewElement(name, tagoffset, attribs, empty) ==
    [XmlElementBase EXCEPT !.m_Begin.name = name,
                           !.m_Begin.offset = tagoffset,
                           !.m_Begin.attribs = attribs,
                           !.m_End.name = IF empty THEN name ELSE <<>>]

\* PushElement without ptrref.reset(elm.m_Begin.Clone()).
PushElement_NoNode(p, elm) == Returns([p EXCEPT !.stack = Append(@, elm)], NoNode)

\* ptrref.reset(elm.m_Begin.Clone()); m_Stack.push_back(elm); return true;
PushElement(p, elm) == Returns([p EXCEPT !.stack = Append(@, elm)], elm.m_Begin)

\* Lastly, check for the trailing marker.
EndOfBeginTag(p, elm) ==
    IF p.cur # ">"
    THEN FailsWith(p, <<"Expected '>' at end of tag.">>)
    ELSE PushElement(NextChar(p), elm)

\* if (CurChar() == '/') { m_PriorWasEmptyTag = true; NextChar(); elm.m_End.m_Name = ... }
EmptyTagSlash(p, name, tagoffset, attribs, empty) ==
    IF p.cur = "/"
    THEN EndOfBeginTag(NextChar([p EXCEPT !.prior = TRUE]),
                       NewElement(name, tagoffset, attribs, TRUE))
    ELSE EndOfBeginTag(p, NewElement(name, tagoffset, attribs, empty))

\* FinishBeginTag without the check of the trailing '?'.
FinishBeginTag_NoCheck(p, bQuestionMarked, name, tagoffset, attribs) ==
    IF bQuestionMarked /\ p.cur = "?"
    THEN EmptyTagSlash(NextChar([p EXCEPT !.prior = TRUE]), name, tagoffset, attribs, TRUE)
    ELSE EmptyTagSlash(p, name, tagoffset, attribs, FALSE)

\* The end of a begin tag, from the check of the trailing '?' on.
FinishBeginTag(p, bQuestionMarked, name, tagoffset, attribs) ==
    IF bQuestionMarked
    THEN IF p.cur # "?"
         THEN FailsWith(p, <<"Expected '?' at end of tag.">>)
         ELSE EmptyTagSlash(NextChar([p EXCEPT !.prior = TRUE]), name, tagoffset, attribs, TRUE)
    ELSE EmptyTagSlash(p, name, tagoffset, attribs, FALSE)

\* ParseBeginTagNode after the attribute loop; a is the loop's result.
BeginTagOfAttributes(a, bQuestionMarked, name, tagoffset) ==
    IF a.hang
    THEN Hangs(a.p)
    ELSE FinishBeginTag(a.p, bQuestionMarked, name, tagoffset, a.attribs)

\* ParseBeginTagNode after the NextToken call that reads the tag's name.
BeginTagOfName(p, bQuestionMarked, tagoffset) ==
    IF ~NextTokenOk(p)
    THEN FailsWith(p, <<"Unexpected end of input.">>)
    ELSE BeginTagOfAttributes(ParseAttributes(p, <<>>), bQuestionMarked, p.tok, tagoffset)

ParseBeginTagNode(p) ==
    IF p.cur = "?"
    THEN BeginTagOfName(NextToken(NextChar(p), xmlDelimsWithSlash), TRUE, TagOffset(p))
    ELSE BeginTagOfName(NextToken(p, xmlDelimsWithSlash), FALSE, TagOffset(p))

-----------------------------------------------------------------------------
(* NextNode and ParseBangTag (mutually recursive).                         *)

\* while (iswspace(CurChar())) { token += CurChar(); NextChar(); }
\* The result is [p, token].
RECURSIVE AccumulateWhiteSpace(_, _)
AccumulateWhiteSpace(p, token) ==
    IF iswspace(p.cur)
    THEN AccumulateWhiteSpace(NextChar(p), Append(token, p.cur))
    ELSE [p |-> p, token |-> token]

\* if (m_PriorWasEmptyTag && !m_Stack.empty())
EmptyTagPending(p) == p.prior /\ p.stack # <<>>

\* GenerateEndNode without m_Stack.erase(...).
GenerateEndNode_NoPop(p) ==
    Returns([p EXCEPT !.prior = FALSE], Last(p.stack).m_End)

\* The synthesized end node of the prior empty tag.
GenerateEndNode(p) ==
    Returns([p EXCEPT !.prior = FALSE, !.stack = Front(@)], Last(p.stack).m_End)

RECURSIVE NextNode(_)

\* BangTagOf that returns false for a malformed tag without setting m_ErrorInfo.
BangTagOf_NoError(p, c1) ==
    IF c1 = "["
    THEN NextNode(EatMarkedSection(p))
    ELSE IF c1 = "-" /\ p.cur = "-"
    THEN NextNode(EatComment(NextChar(p)))
    ELSE Fails(p)

\* ParseBangTag after its two NextChar calls; c1 is the character after the '!'.
BangTagOf(p, c1) ==
    IF c1 = "["
    THEN NextNode(EatMarkedSection(p))
    ELSE IF c1 = "-" /\ p.cur = "-"
    THEN NextNode(EatComment(NextChar(p)))
    ELSE FailsWith(p, <<"Malformed tag beginning with '!'">>)

\* Eat the '!'
EatBang(p) == BangTagOf(NextChar(p), p.cur)

ParseBangTag(p) == EatBang(NextChar(p))

\* We're parsing a tag: p is the parser after the '<' has been eaten.
ParseTag(p) ==
    IF p.cur = "/" THEN ParseEndTagNode(p)
    ELSE IF p.cur = "!" THEN ParseBangTag(p)
    ELSE ParseBeginTagNode(p)

\* Determine if we're parsing a tag or value; w is [p, token], the leading whitespace.
TagOrValue(w) ==
    IF w.p.cur = "<"
    THEN ParseTag(NextChar(w.p))
    ELSE ParseTagValueNode(w.p, w.token)

NextNode(p) ==
    IF EmptyTagPending(p)
    THEN GenerateEndNode(p)
    ELSE TagOrValue(AccumulateWhiteSpace(p, <<>>))

-----------------------------------------------------------------------------
(* Reset and the session starts.                                           *)

\* Reset without m_PriorWasEmptyTag = false.
Reset_KeepFlag(p) ==
    [p EXCEPT !.stack = <<>>, !.reader = NoReader, !.size = 0, !.pos = 0]

Reset(p) ==
    [p EXCEPT !.stack = <<>>, !.prior = FALSE, !.reader = NoReader,
              !.size = 0, !.pos = 0]

\* Priming that fails without an error text.
PrimeCurChar_NoError(p) ==
    IF ~NextCharOk(p)
    THEN [p |-> NextChar(p), ret |-> FALSE]
    ELSE [p |-> NextChar(p), ret |-> TRUE]

\* Prime the current character.  The result is [p, ret].
PrimeCurChar(p) ==
    IF ~NextCharOk(p)
    THEN [p |-> [NextChar(p) EXCEPT !.err = <<"Empty document.  No XML tags found.">>],
          ret |-> FALSE]
    ELSE [p |-> NextChar(p), ret |-> TRUE]

\* The result is [p, ret].
BeginParsingImpl(p) ==
    IF p.reader.kind = "none"
    THEN [p |-> p, ret |-> FALSE]
    ELSE PrimeCurChar([p EXCEPT !.size = GetFileLength(p.reader),
                                !.reader = SeekToStart(p.reader)])

\* BeginParsingFromMemory without its Reset call.
BeginParsingFromMemory_NoReset(p, data) ==
    BeginParsingImpl([p EXCEPT !.reader = XmlMemoryInputInterface(data)])

BeginParsingFromMemory(p, data) ==
    BeginParsingImpl([Reset(p) EXCEPT !.reader = XmlMemoryInputInterface(data)])

\* found says whether the file could be opened; data is its content.
BeginParsingFromFile(p, found, data) ==
    IF ~found
    THEN [p |-> [Reset(p) EXCEPT !.err = <<"Failed opening input file:  ", "filename">>],
          ret |-> FALSE]
    ELSE BeginParsingImpl([Reset(p) EXCEPT !.reader = XmlFileInputInterface(data)])

\* iface is the caller's source object.
BeginParsingFromInterface(p, iface) ==
    BeginParsingImpl([Reset(p) EXCEPT !.reader = iface])

-----------------------------------------------------------------------------
(* The documents the caller parses.                                        *)

Pieces ==
    { <<"<", "a", ">">>,
      <<"<", "b", ">">>,
      <<"<", "/", "a", ">">>,
      <<"<", "/", "b", ">">>,
      <<"<", "/", "A", ">">>,
      <<"<", "a", "/", ">">>,
      <<"<", "b", "/", "x">>,
      <<"<", "a">>,
      <<"<", "!", "-", "-", "-", "-", ">">>,
      <<"x">>,
      <<" ">>,
      <<"<">>,
      <<">">>,
      <<"/">> }

\* <note><to>Mary</to></note>
NoteDoc ==
    <<"<", "n", "o", "t", "e", ">", "<", "t", "o", ">", "M", "a", "r", "y",
      "<", "/", "t", "o", ">", "<", "/", "n", "o", "t", "e", ">">>

\* The concatenation of a sequence of pieces.
RECURSIVE Flatten(_)
Flatten(pcs) == IF pcs = <<>> THEN <<>> ELSE Head(pcs) \o Flatten(Tail(pcs))

\* The concatenations of at most n pieces.
PieceDocs(n) == UNION { { Flatten(pcs) : pcs \in [1..k -> Pieces] } : k \in 0..n }

\* The attributes a begin tag of TagDocs is written with:  b  b=c  c="d /"
AttribTexts ==
    { <<" ", "b">>,
      <<" ", "b", "=", "c">>,
      <<" ", "c", "=", "\"", "d", " ", "/", "\"">> }

\* The ends of a begin tag:  >  />  ?>  ?/>  and, after a space, />  ?>
TagEnds ==
    { <<">">>,
      <<"/", ">">>,
      <<"?", ">">>,
      <<"?", "/", ">">>,
      <<" ", "/", ">">>,
      <<" ", "?", ">">> }

\* What precedes the begin tag:  nothing, <!---->, <![x]]>, <!----->, <b> and a space
Leads ==
    { <<>>,
      <<"<", "!", "-", "-", "-", "-", ">">>,
      <<"<", "!", "[", "x", "]", "]", ">">>,
      <<"<", "!", "-", "-", "-", "-", "-", ">">>,
      <<"<", "b", ">", " ">> }

\* What follows the begin tag:  nothing, </a>, text and </a>, a space
Trails ==
    { <<>>,
      <<"<", "/", "a", ">">>,
      <<" ", "x", " ", "y", " ", "<", "/", "a", ">">>,
      <<" ">> }

\* The begin tags <a ...> and <?a ...> with at most n attributes.
BeginTags(n) ==
    { Flatten(<<start, Flatten(atts), end>>) :
        start \in { <<"<", "a">>, <<"<", "?", "a">> },
        atts \in UNION { [1..k -> AttribTexts] : k \in 0..n },
        end \in TagEnds }

\* The documents made of one begin tag, what precedes it and what follows it.
TagDocs(n) ==
    { Flatten(<<lead, tag, trail>>) : lead \in Leads, tag \in BeginTags(n), trail \in Trails }

\* The tags beginning with "<!":  <!x>  <!-x>  <!  <!-  <![x]]>  <!--x-->
\* <![x]]]>  <!--x--->
BangTags ==
    { <<"<", "!", "x", ">">>,
      <<"<", "!", "-", "x", ">">>,
      <<"<", "!">>,
      <<"<", "!", "-">>,
      <<"<", "!", "[", "x", "]", "]", ">">>,
      <<"<", "!", "-", "-", "x", "-", "-", ">">>,
      <<"<", "!", "[", "x", "]", "]", "]", ">">>,
      <<"<", "!", "-", "-", "x", "-", "-", "-", ">">> }

\* The documents made of one tag beginning with "<!", after nothing, <a> or
\* <a/>, and before nothing or </a>.
BangDocs ==
    { Flatten(<<lead, tag, trail>>) :
        lead \in { <<>>, <<"<", "a", ">">>, <<"<", "a", "/", ">">> },
        tag \in BangTags,
        trail \in { <<>>, <<"<", "/", "a", ">">> } }

\* <b><a b/></b>
NestedDoc ==
    <<"<", "b", ">", "<", "a", " ", "b", "/", ">", "<", "/", "b", ">">>

Documents ==
    PieceDocs(MaxPieces) \cup TagDocs(MaxAttribs) \cup BangDocs \cup { NoteDoc, NestedDoc }

-----------------------------------------------------------------------------
(* The state machine: a caller that constructs a parser, starts one        *)
(* session on it and then calls NextNode.                                  *)

BoolText(b) == IF b THEN "true" ELSE "false"

\* A parser instance p of the caller before its first session, with what the
\* caller has seen of it: the BeginParsingFrom... result, the last NextNode
\* result, the nodes returned, the number of NextNode calls.
Instance(p) ==
    [p |-> p, began |-> "no", ret |-> "none", events |-> <<>>, calls |-> 0, hung |-> FALSE]

\* The parser's data members become those of the record p.
Install(p) ==
    /\ m_Stack' = p.stack
    /\ m_PriorWasEmptyTag' = p.prior
    /\ m_Reader' = p.reader
    /\ m_DataSize' = p.size
    /\ m_DataPos' = p.pos
    /\ m_ErrorInfo' = p.err
    /\ m_CurChar' = p.cur
    /\ m_CurToken' = p.tok

Init ==
    /\ m_Stack = Constructed.stack
    /\ m_PriorWasEmptyTag = Constructed.prior
    /\ m_Reader = Constructed.reader
    /\ m_DataSize = Constructed.size
    /\ m_DataPos = Constructed.pos
    /\ m_ErrorInfo = Constructed.err
    /\ m_CurChar = Constructed.cur
    /\ m_CurToken = Constructed.tok
    /\ ptrref = NoNode
    /\ began = "no"
    /\ ret = "none"
    /\ events = <<>>
    /\ calls = 0
    /\ hung = FALSE
    /\ sessions = 0
    /\ fp = NoFile
    /\ xml2 = Instance(Constructed)
    /\ tokens = 0
    /\ build = NoBuild
    /\ readc = NoRead

\* A session start has returned r = [p, ret].
SessionBegun(r) ==
    /\ Install(r.p)
    /\ began' = BoolText(r.ret)
    /\ events' = <<>>
    /\ calls' = 0
    /\ sessions' = sessions + 1
    /\ fp' = FileOf(r.p.reader, fp)
    /\ UNCHANGED <<ptrref, ret, hung, xml2, tokens, build, readc>>

\* xml.BeginParsingFromMemory(myData.data(), myData.size())
CallBeginParsingFromMemory ==
    /\ began = "no"
    /\ \E data \in Documents : SessionBegun(BeginParsingFromMemory(Parser, data))

\* xml.BeginParsingFromFile(filename)
CallBeginParsingFromFile ==
    /\ began = "no"
    /\ \E found \in BOOLEAN :
          \E data \in (IF found THEN Documents ELSE { <<>> }) :
             SessionBegun(BeginParsingFromFile(Parser, found, data))

\* A NextNode call has ended with the result r = [p, ret, node, hang].
NextNodeDone(r) ==
    /\ IF r.hang
       THEN /\ hung' = TRUE
            /\ UNCHANGED <<m_Stack, m_PriorWasEmptyTag, m_Reader, m_DataSize, m_DataPos,
                           m_ErrorInfo, m_CurChar, m_CurToken, ptrref, ret, events, fp>>
       ELSE /\ Install(r.p)
            /\ fp' = FileOf(r.p.reader, fp)
            /\ ptrref' = r.node
            /\ ret' = BoolText(r.ret)
            /\ events' = IF r.ret THEN Append(events, r.node) ELSE events
            /\ hung' = FALSE
    /\ calls' = calls + 1
    /\ UNCHANGED <<began, sessions, xml2, tokens, build, readc>>

\* xml.NextNode(node)
CallNextNode ==
    /\ began # "no"
    /\ ~hung
    /\ calls < MaxCalls
    /\ NextNodeDone(NextNode(Parser))

Next ==
    \/ CallBeginParsingFromMemory
    \/ CallBeginParsingFromFile
    \/ CallNextNode

Spec == Init /\ [][Next]_vars

-----------------------------------------------------------------------------
(* The state machine of a caller that reuses its parser: it starts a       *)
(* session at any time, from memory, from a file or from its own source    *)
(* object, calls Reset at any time and calls NextNode at any time.         *)

\* The documents of the sessions:  <a><b/>  <a>x</a>  </a>  <a/>  <b></a>
\* x</a>  <!x>  <a  a space, and the empty document.
SessionDocuments ==
    { <<"<", "a", ">", "<", "b", "/", ">">>,
      <<"<", "a", ">", "x", "<", "/", "a", ">">>,
      <<"<", "/", "a", ">">>,
      <<"<", "a", "/", ">">>,
      <<"<", "b", ">", "<", "/", "a", ">">>,
      <<"x", "<", "/", "a", ">">>,
      <<"<", "!", "x", ">">>,
      <<"<", "a">>,
      <<" ">>,
      <<>> }

\* The parser p with its copy of the caller's source object seeing the
\* caller's FILE f as it is now.
Attached(p, f) ==
    IF p.reader.kind = "interface"
    THEN [p EXCEPT !.reader = MyXmlFileInputInterface(f)]
    ELSE p

\* _wfopen_s(&fp, filename, L"rb"); myInterface.reset(new MyXmlFileInputInterface(fp))
OpenInterface ==
    /\ ~fp.open
    /\ \E data \in SessionDocuments : fp' = OpenedFile(data)
    /\ UNCHANGED <<m_Stack, m_PriorWasEmptyTag, m_Reader, m_DataSize, m_DataPos, m_ErrorInfo,
                   m_CurChar, m_CurToken, ptrref, began, ret, events, calls, hung, sessions,
                   xml2, tokens, build, readc>>

BeginSessionFromMemory ==
    /\ ~hung
    /\ sessions < MaxSessions
    /\ \E data \in SessionDocuments : SessionBegun(BeginParsingFromMemory(Parser, data))

BeginSessionFromFile ==
    /\ ~hung
    /\ sessions < MaxSessions
    /\ \E found \in BOOLEAN :
          \E data \in (IF found THEN SessionDocuments ELSE { <<>> }) :
             SessionBegun(BeginParsingFromFile(Parser, found, data))

\* xml.BeginParsingFromInterface(myInterface.get())
BeginSessionFromInterface ==
    /\ ~hung
    /\ sessions < MaxSessions
    /\ fp.open
    /\ SessionBegun(BeginParsingFromInterface(Parser, MyXmlFileInputInterface(fp)))

\* xml.Reset()
CallReset ==
    /\ ~hung
    /\ Install(Reset(Parser))
    /\ began' = "reset"
    /\ UNCHANGED <<ptrref, ret, events, calls, hung, sessions, fp, xml2, tokens, build, readc>>

\* xml.NextNode(node), on a parser in any state.
CallNextNodeAnyTime ==
    /\ ~hung
    /\ calls < MaxCalls
    /\ NextNodeDone(NextNode(Attached(Parser, fp)))

NextSessions ==
    \/ OpenInterface
    \/ BeginSessionFromMemory
    \/ BeginSessionFromFile
    \/ BeginSessionFromInterface
    \/ CallReset
    \/ CallNextNodeAnyTime

SpecSessions == Init /\ [][NextSessions]_vars

-----------------------------------------------------------------------------
(* The state machine of a caller with two parser instances, xml (the       *)
(* variables m_Stack ... hung) and xml2, that starts a session on each     *)
(* from the same source object and then calls NextNode on them in any      *)
(* order.                                                                  *)

\* A session start on xml2 has returned r = [p, ret].
SecondBegun(r) ==
    /\ xml2' = [p |-> r.p, began |-> BoolText(r.ret), ret |-> xml2.ret,
                events |-> <<>>, calls |-> 0, hung |-> FALSE]
    /\ fp' = FileOf(r.p.reader, fp)
    /\ UNCHANGED <<m_Stack, m_PriorWasEmptyTag, m_Reader, m_DataSize, m_DataPos, m_ErrorInfo,
                   m_CurChar, m_CurToken, ptrref, began, ret, events, calls, hung, sessions,
                   tokens, build, readc>>

\* A NextNode call on xml2 has ended with the result r = [p, ret, node, hang].
SecondNextNodeDone(r) ==
    /\ xml2' = IF r.hang
               THEN [xml2 EXCEPT !.hung = TRUE, !.calls = @ + 1]
               ELSE [p |-> r.p, began |-> xml2.began, ret |-> BoolText(r.ret),
                     events |-> IF r.ret THEN Append(xml2.events, r.node) ELSE xml2.events,
                     calls |-> xml2.calls + 1, hung |-> FALSE]
    /\ fp' = IF r.hang THEN fp ELSE FileOf(r.p.reader, fp)
    /\ UNCHANGED <<m_Stack, m_PriorWasEmptyTag, m_Reader, m_DataSize, m_DataPos, m_ErrorInfo,
                   m_CurChar, m_CurToken, ptrref, began, ret, events, calls, hung, sessions,
                   tokens, build, readc>>

\* xml.BeginParsingFromInterface(myInterface.get())
FirstBegins ==
    /\ began = "no"
    /\ fp.open
    /\ SessionBegun(BeginParsingFromInterface(Parser, MyXmlFileInputInterface(fp)))

\* xml2.BeginParsingFromInterface(myInterface.get())
SecondBegins ==
    /\ xml2.began = "no"
    /\ fp.open
    /\ SecondBegun(BeginParsingFromInterface(xml2.p, MyXmlFileInputInterface(fp)))

\* xml.NextNode(node), both sessions started.
FirstCallsNextNode ==
    /\ began # "no" /\ xml2.began # "no"
    /\ ~hung
    /\ calls < MaxCalls
    /\ NextNodeDone(NextNode(Attached(Parser, fp)))

\* xml2.NextNode(node), both sessions started.
SecondCallsNextNode ==
    /\ began # "no" /\ xml2.began # "no"
    /\ ~xml2.hung
    /\ xml2.calls < MaxCalls
    /\ SecondNextNodeDone(NextNode(Attached(xml2.p, fp)))

NextPair ==
    \/ OpenInterface
    \/ FirstBegins
    \/ SecondBegins
    \/ FirstCallsNextNode
    \/ SecondCallsNextNode

SpecPair == Init /\ [][NextPair]_vars

-----------------------------------------------------------------------------
(* The state machine of NextToken on its own: a session is started on a    *)
(* text and NextToken is called on the parser, with either delimiter set,  *)
(* as ParseBeginTagNode and ParseEndTagNode call it.                       *)

\* The texts of at most n characters over  "  '  a  /  and the space.
TokenTexts(n) == UNION { [1..k -> {"\"", "'", "a", "/", " "}] : k \in 0..n }

BeginTokenSession ==
    /\ began = "no"
    /\ \E data \in TokenTexts(MaxTokenLen) :
          \/ SessionBegun(BeginParsingFromMemory(Parser, data))
          \/ SessionBegun(BeginParsingFromFile(Parser, TRUE, data))

\* NextToken(delims)
CallNextToken ==
    /\ began = "true"
    /\ tokens < MaxTokens
    /\ \E delims \in {xmlDelimsWithEquals, xmlDelimsWithSlash} :
          Install(NextToken(Parser, delims))
    /\ tokens' = tokens + 1
    /\ UNCHANGED <<ptrref, began, ret, events, calls, hung, sessions, fp, xml2,
                   build, readc>>

NextTokens ==
    \/ BeginTokenSession
    \/ CallNextToken

SpecToken == Init /\ [][NextTokens]_vars

\* The library is compiled.
Compile ==
    /\ build = NoBuild
    /\ build' \in Builds
    /\ UNCHANGED <<m_Stack, m_PriorWasEmptyTag, m_Reader, m_DataSize, m_DataPos,
                   m_ErrorInfo, m_CurChar, m_CurToken, ptrref, began, ret, events,
                   calls, hung, sessions, fp, xml2, tokens, readc>>

\* ReadChar(c) of a file-backed and of a memory-backed input source, each
\* holding the one byte b.
ReadByte ==
    /\ build # NoBuild
    /\ \E b \in Bytes :
          readc' = [byte |-> b, file |-> FileReadChar(b, build),
                    memory |-> MemoryReadChar(b, build)]
    /\ UNCHANGED <<m_Stack, m_PriorWasEmptyTag, m_Reader, m_DataSize, m_DataPos,
                   m_ErrorInfo, m_CurChar, m_CurToken, ptrref, began, ret, events,
                   calls, hung, sessions, fp, xml2, tokens, build>>

NextBytes ==
    \/ Compile
    \/ ReadByte

SpecBytes == Init /\ [][NextBytes]_vars

-----------------------------------------------------------------------------
(* Vocabulary of the properties.                                           *)

\* The step is a NextNode call.
NextNodeCalled == calls' = calls + 1

Reverse(s) == [i \in 1..Len(s) |-> s[Len(s) + 1 - i]]

\* The names of the events of one type, in emission order.
RECURSIVE NamesOf(_, _)
NamesOf(evts, type) ==
    IF evts = <<>> THEN <<>>
    ELSE IF Head(evts).type = type
    THEN <<Head(evts).name>> \o NamesOf(Tail(evts), type)
    ELSE NamesOf(Tail(evts), type)

\* The offsets of the Open events, in emission order.
RECURSIVE OpenOffsets(_)
OpenOffsets(evts) ==
    IF evts = <<>> THEN <<>>
    ELSE IF Head(evts).type = "Begin"
    THEN <<Head(evts).offset>> \o OpenOffsets(Tail(evts))
    ELSE OpenOffsets(Tail(evts))

StrictlyIncreasing(s) == \A i \in 1..(Len(s) - 1) : s[i] < s[i + 1]

\* The events replayed against a stack of names: open holds the names of the
\* Opens whose Close has not been produced; ok says that every Close so far
\* carried the name of the most recent of them.
RECURSIVE Replay(_, _)
Replay(evts, open) ==
    IF evts = <<>> THEN [ok |-> TRUE, open |-> open]
    ELSE IF Head(evts).type = "Begin"
    THEN Replay(Tail(evts), Append(open, Head(evts).name))
    ELSE IF Head(evts).type = "End"
    THEN IF open # <<>> /\ Last(open) = Head(evts).name
         THEN Replay(Tail(evts), Front(open))
         ELSE [ok |-> FALSE, open |-> open]
    ELSE Replay(Tail(evts), open)

\* No Open event follows a Close event: no element has a sibling.
NoSiblings(evts) ==
    \A i, j \in 1..Len(evts) :
        i < j => ~(evts[i].type = "End" /\ evts[j].type = "Begin")

\* name occurs in text as a run of consecutive characters.
Contains(text, name) ==
    \E i \in 0..(Len(text) - Len(name)) : SubSeq(text, i + 1, i + Len(name)) = name

\* The characters the next call sees: the current one and the unread ones.
Upcoming ==
    IF m_CurChar = NUL THEN <<>>
    ELSE <<m_CurChar>> \o SubSeq(m_Reader.data, m_Reader.pos + 1, Len(m_Reader.data))

RECURSIVE DropWhiteSpace(_)
DropWhiteSpace(text) ==
    IF text # <<>> /\ iswspace(Head(text)) THEN DropWhiteSpace(Tail(text)) ELSE text

\* The longest prefix of text made of characters that may stand in a tag name.
RECURSIVE NameRun(_)
NameRun(text) ==
    IF text # <<>> /\ ~iswspace(Head(text)) /\ Head(text) \notin {"=", ">", "<", "?", "\"", "'"}
    THEN <<Head(text)>> \o NameRun(Tail(text))
    ELSE <<>>

\* The name of the end tag </name> the input continues with.
EndTagName == NameRun(SubSeq(DropWhiteSpace(Upcoming), 3, Len(DropWhiteSpace(Upcoming))))

\* The next call reads an end tag </name>: no synthesized Close is pending and
\* the input continues, after whitespace, with "</", a name and ">".
EndTagAhead ==
    /\ began = "true"
    /\ ~(m_PriorWasEmptyTag /\ m_Stack # <<>>)
    /\ Len(DropWhiteSpace(Upcoming)) >= 3 + Len(EndTagName)
    /\ DropWhiteSpace(Upcoming)[1] = "<"
    /\ DropWhiteSpace(Upcoming)[2] = "/"
    /\ DropWhiteSpace(Upcoming)[3 + Len(EndTagName)] = ">"

\* The input is exhausted: no current character and no character left to read.
InputExhausted == m_CurChar = NUL /\ m_Reader.pos = Len(m_Reader.data)

\* The last NextNode call returned false, and the error text is empty.
CleanEnd == began = "true" /\ ~hung /\ ret = "false" /\ m_ErrorInfo = <<>>

\* The session is parsing <note><to>Mary</to></note>.
ParsingNote == began = "true" /\ m_Reader.data = NoteDoc

NoteEvents ==
    << <<"Begin", <<"n", "o", "t", "e">>, <<>>>>,
       <<"Begin", <<"t", "o">>, <<>>>>,
       <<"Value", <<"t", "o">>, <<"M", "a", "r", "y">>>>,
       <<"End", <<"t", "o">>, <<>>>>,
       <<"End", <<"n", "o", "t", "e">>, <<>>>> >>

-----------------------------------------------------------------------------
(* The properties.                                                         *)

\* C1: every Close event carries the name of the most recently produced Open
\* whose Close has not yet been produced, in every sequence of NextNode calls,
\* the calls made after a failed call included.
C1_CloseCarriesOpenName == Replay(events, <<>>).ok

\* C2: for <note><to>Mary</to></note> the calls return Open(note), Open(to),
\* Text(to, Mary), Close(to), Close(note) and then false with an empty error
\* text, and the offsets of the Opens are strictly increasing.
C2_NoteEvents ==
    ParsingNote =>
        /\ ~hung
        /\ Len(events) = (IF calls <= 5 THEN calls ELSE 5)
        /\ \A i \in 1..Len(events) :
              <<events[i].type, events[i].name, events[i].value>> = NoteEvents[i]
        /\ StrictlyIncreasing(OpenOffsets(events))
        /\ (calls \in 1..5 => ret = "true" /\ ptrref = events[calls])
        /\ (calls >= 6 => ret = "false" /\ ptrref = NoNode /\ m_ErrorInfo = <<>>)

\* C2's case: the sixth call on the note document has returned false.
C2_Witness == ParsingNote /\ calls = 6 /\ ret = "false" /\ Len(events) = 5

\* C3 as stated: after an input is parsed to the end without error, the Close
\* names are the exact reverse of the Open names.
C3_ClosesReverseOpens ==
    CleanEnd => NamesOf(events, "End") = Reverse(NamesOf(events, "Begin"))

\* C3 as amended: after an input is parsed to the end without error, every
\* Close carries the name of the most recent Open not yet closed and every
\* Open is closed; the Close names are the exact reverse of the Open names
\* when no element has a sibling.
C3_ProperNesting ==
    CleanEnd =>
        /\ Replay(events, <<>>).ok
        /\ Replay(events, <<>>).open = <<>>
        /\ (NoSiblings(events) =>
               NamesOf(events, "End") = Reverse(NamesOf(events, "Begin")))

\* C3's case: a clean end after sibling elements of different names.
C3_Witness ==
    /\ CleanEnd
    /\ Len(NamesOf(events, "Begin")) >= 2
    /\ NamesOf(events, "End") # Reverse(NamesOf(events, "Begin"))

\* C4: a call that reads an end tag </name> returns a Close and pops one entry
\* exactly when the stack is non-empty and name equals the name of its top;
\* otherwise it returns false, leaves the stack alone and sets an error text
\* that contains name and, when the stack is non-empty, the expected name.
C4_EndTagMatchesTop ==
    [][ (NextNodeCalled /\ EndTagAhead) =>
           IF m_Stack # <<>> /\ EndTagName = Last(m_Stack).m_Begin.name
           THEN /\ ret' = "true"
                /\ ptrref'.type = "End"
                /\ ptrref'.name = EndTagName
                /\ m_Stack' = Front(m_Stack)
           ELSE /\ ret' = "false"
                /\ ptrref' = NoNode
                /\ m_Stack' = m_Stack
                /\ m_ErrorInfo' # <<>>
                /\ Contains(m_ErrorInfo', EndTagName)
                /\ (m_Stack # <<>> => Contains(m_ErrorInfo', Last(m_Stack).m_Begin.name)) ]_vars

\* C4's case: <a><b></a> has failed with a text naming both "a" and "b".
C4_Witness ==
    /\ ret = "false"
    /\ Len(m_Stack) = 2
    /\ Last(m_Stack).m_Begin.name = <<"b">>
    /\ m_ErrorInfo = <<"Mismatched end tag, found '", "a", "', expected '", "b", "'">>

\* C5: the call that finds the input exhausted while the stack is non-empty
\* returns false with a non-empty error text and leaves the stack as it is.
C5_PrematureEndFails ==
    [][ (/\ NextNodeCalled
         /\ began = "true"
         /\ InputExhausted
         /\ m_ErrorInfo = <<>>
         /\ ~m_PriorWasEmptyTag
         /\ m_Stack # <<>>) =>
           (ret' = "false" /\ m_ErrorInfo' # <<>> /\ m_Stack' = m_Stack) ]_vars

\* C6: the event stream is finite.  The input and the stack are finite, so
\* the stream is finite exactly when every call that returns an event reads
\* a character or pops an element: a call that returns an event and does
\* neither leaves the parser as it was, and every later call repeats it.
C6_EventsMakeProgress ==
    [][ (NextNodeCalled /\ ~hung' /\ ret' = "true") =>
           (m_DataPos' > m_DataPos \/ Len(m_Stack') < Len(m_Stack)) ]_vars

\* C7: every NextNode call returns.
C7_EveryCallReturns == ~hung

\* C8: after a call has returned false with a non-empty error text, every
\* later call returns false and produces no event.
C8_ErrorIsTerminal ==
    [][ (NextNodeCalled /\ ret = "false" /\ m_ErrorInfo # <<>>) =>
           (~hung' /\ ret' = "false" /\ ptrref' = NoNode /\ events' = events) ]_vars

\* The session has ended cleanly: input exhausted, stack empty, no error.
CleanlyCompleted == CleanEnd /\ InputExhausted /\ m_Stack = <<>>

\* C9: after a clean completion a further call returns false and changes
\* nothing observable.
C9_CleanEndIsIdempotent ==
    [][ (NextNodeCalled /\ CleanlyCompleted) =>
           /\ ~hung'
           /\ ret' = "false"
           /\ ptrref' = NoNode
           /\ events' = events
           /\ m_ErrorInfo' = <<>>
           /\ m_DataPos' = m_DataPos
           /\ m_Reader' = m_Reader
           /\ m_Stack' = <<>> ]_vars

\* C9's case: at least two calls have returned false after a clean completion.
C9_Witness == CleanlyCompleted /\ events # <<>> /\ calls >= Len(events) + 2

\* The last call returned the Open of a begin tag recognised as self-closing.
SelfClosingOpened ==
    /\ ~hung
    /\ ret = "true"
    /\ ptrref.type = "Begin"
    /\ m_PriorWasEmptyTag
    /\ m_Stack # <<>>
    /\ Last(m_Stack).m_Begin = ptrref
    /\ Last(m_Stack).m_End.name = ptrref.name

\* C10: the call after the Open of a self-closing tag returns the Close of
\* the same name, reads no character and pops exactly that element.
C10_SelfClosingCloses ==
    [][ (NextNodeCalled /\ SelfClosingOpened) =>
           /\ ~hung'
           /\ ret' = "true"
           /\ ptrref'.type = "End"
           /\ ptrref'.name = ptrref.name
           /\ events' = Append(events, ptrref')
           /\ m_DataPos' = m_DataPos
           /\ m_Reader' = m_Reader
           /\ m_CurChar' = m_CurChar
           /\ m_Stack' = Front(m_Stack) ]_vars

\* C10's case: <a/> has produced Open(a) and then Close(a).
C10_Witness ==
    /\ ret = "true"
    /\ ptrref.type = "End"
    /\ ptrref.name = <<"a">>
    /\ Len(events) >= 2
    /\ events[Len(events) - 1].type = "Begin"
    /\ events[Len(events) - 1].name = <<"a">>
    /\ m_CurToken = <<"a">>

-----------------------------------------------------------------------------
(* The begin tag as written: the grammar                                   *)
(*    '<' '?'? name (attribute)* ('?')? ('/')? '>'                          *)
(*    attribute: name ('=' value)?,  value: "..." | '...' | unquoted run    *)
(* with whitespace allowed around attributes and around '='.               *)

StartsWith(text, prefix) ==
    Len(text) >= Len(prefix) /\ SubSeq(text, 1, Len(prefix)) = prefix

Drop(text, n) == SubSeq(text, n + 1, Len(text))

\* The suffix of text that begins with its first occurrence of term; <<>> if there is none.
RECURSIVE FromFirst(_, _)
FromFirst(text, term) ==
    IF Len(text) < Len(term) THEN <<>>
    ELSE IF StartsWith(text, term) THEN text
    ELSE FromFirst(Tail(text), term)

Occurs(text, term) == FromFirst(text, term) # <<>>

\* What follows the first occurrence of term in text.
AfterFirst(text, term) == Drop(FromFirst(text, term), Len(term))

\* What precedes the first occurrence of term in text.
BeforeFirst(text, term) == SubSeq(text, 1, Len(text) - Len(FromFirst(text, term)))

\* The characters that end a name or an unquoted value, whitespace apart.
NameStops == {"=", ">", "<", "?", "/", "\"", "'"}

\* The longest prefix of text without whitespace and without a character of stops.
RECURSIVE RunOf(_, _)
RunOf(text, stops) ==
    IF text # <<>> /\ ~iswspace(Head(text)) /\ Head(text) \notin stops
    THEN <<Head(text)>> \o RunOf(Tail(text), stops)
    ELSE <<>>

NoTag == [ok |-> FALSE, q |-> FALSE, name |-> <<>>, attribs |-> <<>>,
          qend |-> FALSE, slash |-> FALSE, rest |-> <<>>]

\* The value written after '='; the result is [ok, value, rest].
WrittenValue(text) ==
    IF text = <<>> THEN [ok |-> FALSE, value |-> <<>>, rest |-> <<>>]
    ELSE IF Head(text) \in {"\"", "'"}
    THEN [ok |-> Occurs(Tail(text), <<Head(text)>>),
          value |-> BeforeFirst(Tail(text), <<Head(text)>>),
          rest |-> AfterFirst(Tail(text), <<Head(text)>>)]
    ELSE [ok |-> RunOf(text, NameStops) # <<>>,
          value |-> RunOf(text, NameStops),
          rest |-> Drop(text, Len(RunOf(text, NameStops)))]

\* The attributes written in text, which follows the tag's name; acc holds the
\* attributes read so far.  The result is [ok, attribs, rest].
RECURSIVE WrittenAttribs(_, _)
WrittenAttribs(text, acc) ==
    LET u == DropWhiteSpace(text)
        name == RunOf(u, NameStops)
        v == DropWhiteSpace(Drop(u, Len(name)))
        val == WrittenValue(DropWhiteSpace(Tail(v)))
    IN  IF u = <<>> THEN [ok |-> FALSE, attribs |-> acc, rest |-> u]
        ELSE IF Head(u) \in {">", "/", "?"} THEN [ok |-> TRUE, attribs |-> acc, rest |-> u]
        ELSE IF name = <<>> THEN [ok |-> FALSE, attribs |-> acc, rest |-> u]
        ELSE IF v # <<>> /\ Head(v) = "="
        THEN IF val.ok
             THEN WrittenAttribs(val.rest, Append(acc, XmlAttribute(name, val.value)))
             ELSE [ok |-> FALSE, attribs |-> acc, rest |-> u]
        ELSE WrittenAttribs(v, Append(acc, XmlAttribute(name, <<>>)))

\* The end of the tag: a is the result of WrittenAttribs, a.rest is what follows
\* the last attribute.
WrittenEnd(q, name, a) ==
    LET qend == StartsWith(a.rest, <<"?">>)
        r1 == IF qend THEN Tail(a.rest) ELSE a.rest
        slash == StartsWith(r1, <<"/">>)
        r2 == IF slash THEN Tail(r1) ELSE r1
    IN  IF a.ok /\ StartsWith(r2, <<">">>)
        THEN [ok |-> TRUE, q |-> q, name |-> name, attribs |-> a.attribs,
              qend |-> qend, slash |-> slash, rest |-> Tail(r2)]
        ELSE NoTag

\* The tag whose name starts text; q says that "<?" preceded it.
WrittenName(text, q) ==
    IF RunOf(text, NameStops) = <<>> THEN NoTag
    ELSE WrittenEnd(q, RunOf(text, NameStops),
                    WrittenAttribs(Drop(text, Len(RunOf(text, NameStops))), <<>>))

\* The begin tag that text starts with, NoTag if it starts with none.
WrittenTag(text) ==
    IF StartsWith(text, <<"<", "!">>) THEN NoTag
    ELSE IF StartsWith(text, <<"<", "?">>) THEN WrittenName(Drop(text, 2), TRUE)
    ELSE IF StartsWith(text, <<"<">>) THEN WrittenName(Drop(text, 1), FALSE)
    ELSE NoTag

\* What the next call reads first: the input ahead without its leading whitespace.
Ahead == DropWhiteSpace(Upcoming)

\* The next call parses input: the session is on and no synthesized Close is pending.
ParsesInput == began = "true" /\ ~hung /\ ~EmptyTagPending(Parser)

\* The begin tag the next call reads, NoTag if it does not read a well-formed one.
TagAhead == IF ParsesInput THEN WrittenTag(Ahead) ELSE NoTag

\* The number of input characters the parser is past: the current character is
\* read but not yet consumed.
Consumed == Len(m_Reader.data) - Len(Upcoming)

-----------------------------------------------------------------------------
(* The properties, continued.                                              *)

\* The next call reads a well-formed begin tag <name ... /> without any '?'.
SlashTagAhead == TagAhead.ok /\ ~TagAhead.q /\ ~TagAhead.qend /\ TagAhead.slash

\* C11: a call that reads a begin tag (not a "<?" tag) whose text ends in "/>"
\* returns its Open and leaves the tag marked self-closing, so that the next
\* call synthesizes the Close of the same name, also when the '/' directly
\* follows an attribute name or an unquoted value; the attributes of the Open
\* are the attributes written, without the '/'.
C11_SlashEndsSelfClosing ==
    [][ (NextNodeCalled /\ SlashTagAhead) =>
           /\ ~hung'
           /\ ret' = "true"
           /\ ptrref'.type = "Begin"
           /\ ptrref'.name = TagAhead.name
           /\ ptrref'.attribs = TagAhead.attribs
           /\ m_PriorWasEmptyTag'
           /\ Len(m_Stack') = Len(m_Stack) + 1
           /\ Last(m_Stack').m_End.name = TagAhead.name ]_vars

\* The next call meets a terminated comment <!-- ... -->.
CommentAhead ==
    ParsesInput /\ StartsWith(Ahead, <<"<", "!", "-", "-">>)
                /\ Occurs(Drop(Ahead, 4), <<"-", "-", ">">>)

\* The next call meets a terminated marked section <![ ... ]]>.
SectionAhead ==
    ParsesInput /\ StartsWith(Ahead, <<"<", "!", "[">>)
                /\ Occurs(Drop(Ahead, 3), <<"]", "]", ">">>)

\* The input that follows the comment or marked section ahead.
AfterBangTag ==
    IF CommentAhead
    THEN AfterFirst(Drop(Ahead, 4), <<"-", "-", ">">>)
    ELSE AfterFirst(Drop(Ahead, 3), <<"]", "]", ">">>)

\* The parser p as it stands when the characters before rest, which ends the
\* input, have been read and consumed and nothing else has been done.
Positioned(p, rest) ==
    IF rest = <<>>
    THEN [p EXCEPT !.cur = NUL,
                   !.pos = Len(p.reader.data),
                   !.reader.pos = Len(p.reader.data),
                   !.reader.eof = (p.reader.kind = "file")]
    ELSE [p EXCEPT !.cur = Head(rest),
                   !.pos = Len(p.reader.data) - Len(rest) + 1,
                   !.reader.pos = Len(p.reader.data) - Len(rest) + 1]

\* The step ends as the NextNode result r says: same return value, same node,
\* same nesting stack and same self-closing flag.
SameOutcome(r) ==
    /\ hung' = r.hang
    /\ ~r.hang => /\ ret' = BoolText(r.ret)
                  /\ ptrref' = r.node
                  /\ m_Stack' = r.p.stack
                  /\ m_PriorWasEmptyTag' = r.p.prior

\* C12: the call that meets a terminated comment or marked section where a tag
\* is expected returns what it returns when it starts behind that comment or
\* section: the comment produces no event and changes neither the nesting
\* stack nor the self-closing flag.
C12_BangTagIsTransparent ==
    [][ (NextNodeCalled /\ (CommentAhead \/ SectionAhead)) =>
           SameOutcome(NextNode(Positioned(Parser, AfterBangTag))) ]_vars

\* text holds nothing but whitespace, terminated comments and terminated
\* marked sections.
RECURSIVE OnlyPadding(_)
OnlyPadding(text) ==
    LET t == DropWhiteSpace(text)
    IN  IF t = <<>> THEN TRUE
        ELSE IF StartsWith(t, <<"<", "!", "-", "-">>) /\ Occurs(Drop(t, 4), <<"-", "-", ">">>)
        THEN OnlyPadding(AfterFirst(Drop(t, 4), <<"-", "-", ">">>))
        ELSE IF StartsWith(t, <<"<", "!", "[">>) /\ Occurs(Drop(t, 3), <<"]", "]", ">">>)
        THEN OnlyPadding(AfterFirst(Drop(t, 3), <<"]", "]", ">">>))
        ELSE FALSE

\* The next call finds the clean end of the document: every element is closed
\* and nothing but padding is left of the input.
CleanEndAhead == m_Stack = <<>> /\ OnlyPadding(Upcoming)

\* C13: the error text is empty exactly when no fatal condition has occurred.
\* A session start is fatal when it returns false.  A NextNode call is fatal
\* when it returns false anywhere but at the clean end of the document; a call
\* that returns an event, or false at the clean end, is not.  So from an empty
\* error text a step leaves it empty exactly when the step is not fatal.
C13_ErrorTextIffFatal ==
    [][ /\ (began = "no" /\ began' # "no") => (m_ErrorInfo' = <<>> <=> began' = "true")
        /\ (NextNodeCalled /\ ~hung' /\ began = "true" /\ m_ErrorInfo = <<>>) =>
              (m_ErrorInfo' = <<>> <=> (ret' = "true" \/ CleanEndAhead)) ]_vars

\* The node is an object of the class that its type tag names: only a begin
\* node carries an offset and attributes, only a value node carries a value.
TypeAgreesWithClass(node) ==
    /\ node.type \in {"Begin", "Value", "End"}
    /\ node.type # "Begin" => node.offset = 0 /\ node.attribs = <<>>
    /\ node.type # "Value" => node.value = <<>>

\* C14: NextNode returns true exactly when it hands back a node, the node's
\* type tag is Begin, Value or End and agrees with its class; when it returns
\* false the caller's pointer is null.
C14_TrueIffNode ==
    /\ ret = "true" <=> ptrref # NoNode
    /\ ret = "true" => TypeAgreesWithClass(ptrref) /\ ptrref = Last(events)
    /\ \A i \in 1..Len(events) : TypeAgreesWithClass(events[i])

\* C14's case: calls have returned a begin node with attributes, a value node
\* and an end node, and the last call has returned false.
C14_Witness ==
    /\ ret = "false"
    /\ ptrref = NoNode
    /\ Len(events) = 3
    /\ events[1].type = "Begin" /\ events[1].attribs # <<>>
    /\ events[2].type = "Value" /\ events[2].value # <<>>
    /\ events[3].type = "End"

\* C15: a call that finds nothing but whitespace (at least one character) left
\* of the input while every element is closed, be it the whole input or what
\* follows the last Close, returns false, leaves the error text empty and
\* produces no event.
C15_WhiteSpaceEndsCleanly ==
    [][ (/\ NextNodeCalled
         /\ began = "true"
         /\ ~hung
         /\ m_Stack = <<>>
         /\ m_ErrorInfo = <<>>
         /\ Upcoming # <<>>
         /\ IsWhiteSpace(Upcoming)) =>
           /\ ~hung'
           /\ ret' = "false"
           /\ ptrref' = NoNode
           /\ events' = events
           /\ m_ErrorInfo' = <<>>
           /\ m_Stack' = <<>>
           /\ InputExhausted' ]_vars

\* C15's case: the input ended with whitespace after the last Close, and the
\* call that read the whitespace has returned false.
C15_Witness ==
    /\ CleanEnd
    /\ InputExhausted
    /\ events # <<>>
    /\ Last(events).type = "End"
    /\ iswspace(Last(m_Reader.data))

\* The next call meets text outside of all tags: after whitespace, a character
\* that does not start a tag, while the stack is empty.
StrayTextAhead ==
    began = "true" /\ ~hung /\ m_Stack = <<>> /\ Ahead # <<>> /\ Head(Ahead) # "<"

\* C16: a call that meets text with a non-whitespace character while the
\* stack is empty returns false with a non-empty error text and produces no
\* event; a Text event is only produced while the stack is non-empty.
C16_StrayTextFails ==
    [][ NextNodeCalled =>
           /\ StrayTextAhead =>
                 /\ ~hung'
                 /\ ret' = "false"
                 /\ ptrref' = NoNode
                 /\ events' = events
                 /\ m_ErrorInfo' # <<>>
                 /\ m_Stack' = <<>>
           /\ (~hung' /\ ret' = "true" /\ ptrref'.type = "Value") =>
                 m_Stack # <<>> /\ m_Stack' # <<>> ]_vars

\* C16's case: the text x outside of all tags has been refused.
C16_Witness ==
    /\ ret = "false"
    /\ m_Stack = <<>>
    /\ m_ErrorInfo = <<"Unexpected data outside of all tags:  '", "x", "'">>

\* The run of input characters ahead up to, not including, the next '<'.
TextRun == BeforeFirst(Upcoming, <<"<">>)

\* The node is the Text event of the element on top of the stack, with the value given.
IsTextOfTop(node, value) ==
    /\ m_Stack # <<>>
    /\ node.type = "Value"
    /\ node.name = Last(m_Stack).m_Begin.name
    /\ node.value = value

\* C17: a call that finds, inside an element, a run of characters up to the
\* next '<' (or the end of the input) that is not all whitespace returns the
\* Text event with the name of the element on top of the stack and exactly
\* that run as its value, whitespace included; a run of whitespace alone that
\* a tag follows produces no Text event; and every Text event carries the name
\* of the top element and, as its value, the input characters up to the next
\* '<', which start behind the '>' of the preceding tag.
C17_TextIsVerbatimRun ==
    [][ (NextNodeCalled /\ ParsesInput /\ ~hung') =>
           /\ (m_Stack # <<>> /\ ~IsWhiteSpace(TextRun)) =>
                 /\ ret' = "true"
                 /\ IsTextOfTop(ptrref', TextRun)
                 /\ events' = Append(events, ptrref')
                 /\ Len(m_Stack') = Len(m_Stack)
           /\ (IsWhiteSpace(TextRun) /\ Occurs(Upcoming, <<"<">>)
                                     /\ ~StartsWith(Ahead, <<"<", "!">>)) =>
                 ptrref'.type # "Value"
           /\ ptrref'.type = "Value" =>
                 /\ IsTextOfTop(ptrref',
                                SubSeq(m_Reader.data, Consumed' - Len(ptrref'.value) + 1, Consumed'))
                 /\ ~Occurs(ptrref'.value, <<"<">>)
                 /\ Upcoming' = <<>> \/ Head(Upcoming') = "<"
                 /\ m_ErrorInfo' = <<>> =>
                       m_Reader.data[Consumed' - Len(ptrref'.value)] = ">" ]_vars

\* C18: the attribute list of the Open of a well-formed begin tag holds one
\* entry per attribute written in the tag, in the order written, with the name
\* and the value written (the empty value when no "=value" is written);
\* attributes of the same name are all kept.
C18_AttributesAsWritten ==
    [][ (NextNodeCalled /\ TagAhead.ok /\ ~hung' /\ ret' = "true") =>
           /\ ptrref'.type = "Begin"
           /\ ptrref'.name = TagAhead.name
           /\ ptrref'.attribs = TagAhead.attribs ]_vars

\* The begin tag that the Open just returned was read from: the input from the
\* '<' at the Open's offset up to the last character consumed.
OpenedTagText == SubSeq(m_Reader.data, ptrref.offset + 1, Consumed)

\* C19: the offset of an Open is the zero-based index of the '<' that starts
\* its begin tag, and is smaller than the length of the input: the call has
\* read that '<' itself, the text from it to the '>' the call consumed last
\* holds no second tag start, and the tag's name follows the '<' (and the '?'
\* of a "<?" tag); when the call starts right at a begin tag, the offset is the
\* index of that tag's '<'.
C19_OffsetIsIndexOfTagStart ==
    [][ (NextNodeCalled /\ ParsesInput /\ ~hung' /\ ret' = "true" /\ ptrref'.type = "Begin") =>
           /\ ptrref'.offset >= Consumed
           /\ ptrref'.offset < Len(m_Reader.data)
           /\ Head(OpenedTagText') = "<"
           /\ Last(OpenedTagText') = ">"
           /\ Occurs(Tail(OpenedTagText'), <<"<">>) =>
                 (Occurs(OpenedTagText', <<"\"">>) \/ Occurs(OpenedTagText', <<"'">>))
           /\ \/ StartsWith(DropWhiteSpace(Drop(OpenedTagText', 1)), ptrref'.name)
              \/ StartsWith(DropWhiteSpace(Drop(OpenedTagText', 2)), ptrref'.name)
                    /\ OpenedTagText'[2] = "?"
           /\ TagAhead.ok => ptrref'.offset = Len(m_Reader.data) - Len(Ahead) ]_vars

\* C19's case: the Open of the tag <a ...> that follows the comment <!----> has
\* been returned with the offset 7.
C19_Witness ==
    /\ ret = "true"
    /\ ptrref.type = "Begin"
    /\ ptrref.offset = 7
    /\ StartsWith(m_Reader.data, <<"<", "!", "-", "-", "-", "-", ">", "<">>)
    /\ calls = 1

\* C20: a well-formed begin tag that starts with "<?" is accepted exactly when
\* a '?' precedes its closing '>' ("?>" or "?/>"): then the call returns its
\* Open, pushes the element and marks it self-closing, so that the next call
\* synthesizes the Close of the same name; otherwise the call returns false
\* with a non-empty error text and pushes nothing.
C20_QuestionTagNeedsQuestionEnd ==
    [][ (NextNodeCalled /\ TagAhead.ok /\ TagAhead.q) =>
           /\ ~hung'
           /\ IF TagAhead.qend
              THEN /\ ret' = "true"
                   /\ ptrref'.type = "Begin"
                   /\ ptrref'.name = TagAhead.name
                   /\ m_PriorWasEmptyTag'
                   /\ Front(m_Stack') = m_Stack
                   /\ Last(m_Stack').m_Begin = ptrref'
                   /\ Last(m_Stack').m_End.name = TagAhead.name
              ELSE /\ ret' = "false"
                   /\ ptrref' = NoNode
                   /\ events' = events
                   /\ m_ErrorInfo' # <<>>
                   /\ m_Stack' = m_Stack ]_vars

\* C20's case: the tag <?a ... ?/> has been opened and then closed by a
\* synthesized Close.
C20_Witness ==
    /\ Len(events) >= 2
    /\ events[Len(events) - 1].type = "Begin"
    /\ events[Len(events) - 1].name = <<"a">>
    /\ Last(events).type = "End"
    /\ Last(events).name = <<"a">>
    /\ ret = "true"
    /\ Occurs(m_Reader.data, <<"<", "?", "a">>)
    /\ Occurs(m_Reader.data, <<"?", "/", ">">>)
    /\ SubSeq(m_Reader.data, Consumed - 2, Consumed) = <<"?", "/", ">">>

-----------------------------------------------------------------------------
(* Tags beginning with "<!", sessions and input sources.                   *)

\* The next call meets a tag that begins with "<!" and goes on neither with
\* "[" nor with "--".
MalformedBangAhead ==
    /\ ParsesInput
    /\ StartsWith(Ahead, <<"<", "!">>)
    /\ ~StartsWith(Ahead, <<"<", "!", "[">>)
    /\ ~StartsWith(Ahead, <<"<", "!", "-", "-">>)

\* C21: a call that meets a tag beginning with "<!" that is followed neither
\* by "[" nor by "--" returns false with a non-empty error text, produces no
\* event and leaves the nesting stack as it was.
C21_MalformedBangTagFails ==
    [][ (NextNodeCalled /\ MalformedBangAhead) =>
           /\ ~hung'
           /\ ret' = "false"
           /\ ptrref' = NoNode
           /\ events' = events
           /\ m_ErrorInfo' # <<>>
           /\ m_Stack' = m_Stack ]_vars

\* C21's case: inside the open element a, the tag <!-x has been refused.
C21_Witness ==
    /\ ret = "false"
    /\ m_ErrorInfo = <<"Malformed tag beginning with '!'">>
    /\ m_Stack # <<>>
    /\ Occurs(m_Reader.data, <<"<", "!", "-", "x">>)
    /\ events = << Last(m_Stack).m_Begin >>

\* The step is a Reset call.
ResetCalled ==
    began' = "reset" /\ calls' = calls /\ sessions' = sessions /\ fp' = fp

\* The step changes no data member of the parser.
ParserUnchanged ==
    UNCHANGED <<m_Stack, m_PriorWasEmptyTag, m_Reader, m_DataSize, m_DataPos, m_ErrorInfo,
                m_CurChar, m_CurToken>>

\* C22: Reset leaves the parser with an empty nesting stack, the self-closing
\* flag cleared, no input source (EndOfDocument is true) and CurPosition 0; a
\* Reset of a parser that was reset before or never started changes no data
\* member; every NextNode call made after Reset and before the next session
\* returns false and produces no event.
C22_ResetReleasesSession ==
    [][ /\ ResetCalled =>
             /\ m_Stack' = <<>>
             /\ ~m_PriorWasEmptyTag'
             /\ m_Reader' = NoReader
             /\ EndOfDocument(Parser)'
             /\ CurPosition(Parser)' = 0
        /\ (ResetCalled /\ began \in {"reset", "no"}) => ParserUnchanged
        /\ (NextNodeCalled /\ began = "reset") =>
             /\ ~hung'
             /\ ret' = "false"
             /\ ptrref' = NoNode
             /\ events' = events ]_vars

\* C22's case: the session on <a>x</a> was reset after its Open(a), and the
\* NextNode call made after the Reset has refused the character x it found
\* in m_CurChar.
C22_Witness ==
    /\ began = "reset"
    /\ ret = "false"
    /\ Len(events) = 1
    /\ events[1].type = "Begin"
    /\ m_ErrorInfo = <<"Unexpected data outside of all tags:  '", "x", "'">>
    /\ m_Stack = <<>>
    /\ m_CurChar = NUL
    /\ m_DataPos = 0

\* What the session start of the running session returns on a freshly
\* constructed parser: same kind of input source, same input characters.
FreshBegin ==
    IF m_Reader.kind = "memory"
    THEN BeginParsingFromMemory(Constructed, m_Reader.data)
    ELSE IF m_Reader.kind = "file"
    THEN BeginParsingFromFile(Constructed, TRUE, m_Reader.data)
    ELSE IF m_Reader.kind = "interface"
    THEN BeginParsingFromInterface(Constructed,
                                   MyXmlFileInputInterface(OpenedFile(m_Reader.data)))
    ELSE BeginParsingFromFile(Constructed, FALSE, <<>>)

\* The parser p after n NextNode calls made on it alone, with what the calls
\* returned: the nodes in order, the last return value, and whether a call
\* did not return.
RECURSIVE Alone(_, _)
Alone(p, n) ==
    IF n = 0
    THEN [p |-> p, events |-> <<>>, ret |-> "none", hang |-> FALSE]
    ELSE LET prev == Alone(p, n - 1)
             r == NextNode(prev.p)
         IN  IF prev.hang \/ r.hang
             THEN [prev EXCEPT !.hang = TRUE]
             ELSE [p |-> r.p,
                   events |-> IF r.ret THEN Append(prev.events, r.node) ELSE prev.events,
                   ret |-> BoolText(r.ret),
                   hang |-> FALSE]

\* C23: whatever the parser went through before the running session was
\* started (sessions abandoned in the middle or finished, Reset calls), the
\* session start returned what it returns on a freshly constructed parser, and
\* the NextNode calls made since have returned the same nodes and the same
\* values and left the same stack, self-closing flag and position as the same
\* number of calls on a freshly constructed parser started on the same input.
C23_RestartIsFresh ==
    began \in {"true", "false"} =>
        LET a == Alone(FreshBegin.p, calls)
        IN  /\ began = BoolText(FreshBegin.ret)
            /\ hung = a.hang
            /\ events = a.events
            /\ (calls > 0 /\ ~hung) => ret = a.ret
            /\ m_Stack = a.p.stack
            /\ m_PriorWasEmptyTag = a.p.prior
            /\ m_DataPos = a.p.pos

\* C23's case: the second session of the parser, on <a><b/> through the
\* caller's source object, has returned Open(a), Open(b), Close(b); the error
\* text is still the one of the earlier session, which was left with an open
\* element on the stack.
C23_Witness ==
    /\ sessions = 2
    /\ began = "true"
    /\ m_Reader.kind = "interface"
    /\ m_Reader.data = <<"<", "a", ">", "<", "b", "/", ">">>
    /\ Len(events) = 3
    /\ ret = "true"
    /\ m_ErrorInfo # <<>>
    /\ Head(m_ErrorInfo) = "Mismatched end tag, found '"

\* The step is a session start.
SessionStarted == sessions' = sessions + 1

\* C24: a session start from the caller's source object, and a NextNode call
\* of a session started from it, leave the caller's object as it was: the
\* FILE it reads from keeps its read position and its end-of-file indicator.
C24_OriginalIsUntouched ==
    [][ (\/ SessionStarted /\ m_Reader'.kind = "interface"
         \/ NextNodeCalled /\ m_Reader.kind = "interface") => fp' = fp ]_vars

\* What BeginParsingFromInterface returns on a freshly constructed parser for
\* the caller's source object, the FILE at its start.
AloneBegin ==
    BeginParsingFromInterface(Constructed, MyXmlFileInputInterface(OpenedFile(fp.data)))

\* C25: when both instances have started their sessions from the caller's
\* source object, then after any interleaving of their NextNode calls each
\* instance has returned the nodes, and holds the error text, that it has
\* after the same number of calls when it runs alone.
C25_InstancesDoNotInterfere ==
    (began # "no" /\ xml2.began # "no") =>
        /\ hung = Alone(AloneBegin.p, calls).hang
        /\ events = Alone(AloneBegin.p, calls).events
        /\ m_ErrorInfo = Alone(AloneBegin.p, calls).p.err
        /\ xml2.hung = Alone(AloneBegin.p, xml2.calls).hang
        /\ xml2.events = Alone(AloneBegin.p, xml2.calls).events
        /\ xml2.p.err = Alone(AloneBegin.p, xml2.calls).p.err

\* Every character of the input has been read and a further read has failed:
\* the documents hold no NUL, so m_CurChar is NUL after a session start only
\* when the last NextChar call found nothing to read.
ReadPastEnd ==
    /\ began # "no"
    /\ m_Reader.kind # "none"
    /\ m_CurChar = NUL
    /\ m_Reader.pos = Len(m_Reader.data)

\* C26: once every character of the input has been read and a further read
\* has failed, EndOfFile of the session's input source returns true, for the
\* file-backed and for the memory-backed source.
C26_EndOfFileAtExhaustion == ReadPastEnd => EndOfFile(m_Reader)

\* What BeginParsingFromFile returns on a freshly constructed parser for a
\* file holding the characters of the running session's input.
FileBegin == BeginParsingFromFile(Constructed, TRUE, m_Reader.data)

\* C27: a session over the memory-backed source has, after every number of
\* NextNode calls, returned the same nodes and the same values and holds the
\* same error text as a session over a file with the same characters: the
\* session start returns the same, every call returns or does not return
\* alike.
C27_MediumIndependent ==
    (began # "no" /\ m_Reader.kind = "memory") =>
        LET a == Alone(FileBegin.p, calls)
        IN  /\ began = BoolText(FileBegin.ret)
            /\ hung = a.hang
            /\ events = a.events
            /\ (calls > 0 /\ ~hung) => ret = a.ret
            /\ m_ErrorInfo = a.p.err

\* Every element is closed, no error has occurred, and what is left of the
\* input is padding whose last characters are the terminator of a comment or
\* of a marked section.
TerminatorEndsInput ==
    /\ ParsesInput
    /\ m_Stack = <<>>
    /\ m_ErrorInfo = <<>>
    /\ Upcoming # <<>>
    /\ OnlyPadding(Upcoming)
    /\ Last(Upcoming) = ">"

\* C28: when every element is closed and the input ends with the terminator
\* of a comment or of a marked section, the call that reads it returns false
\* and leaves the error text empty.
C28_TerminatorAtEndIsClean ==
    [][ (NextNodeCalled /\ TerminatorEndsInput) =>
           /\ ~hung'
           /\ ret' = "false"
           /\ m_ErrorInfo' = <<>> ]_vars

\* The step ends where the NextNode result r ends: same return value, same
\* node, same number of characters consumed and same current character.
ResumesAs(r) ==
    /\ hung' = r.hang
    /\ ~r.hang => /\ ret' = BoolText(r.ret)
                  /\ ptrref' = r.node
                  /\ m_DataPos' = r.p.pos
                  /\ m_CurChar' = r.p.cur

\* C29: a comment ends at the first "-->" after its "<!--" and a marked
\* section at the first "]]>" after its "<![", whatever precedes that
\* occurrence: the call that meets one goes on with the character behind that
\* '>', so it returns the node and consumes the characters that a call
\* starting at that character returns and consumes.
C29_EndsAtFirstTerminator ==
    [][ (NextNodeCalled /\ (CommentAhead \/ SectionAhead)) =>
           ResumesAs(NextNode(Positioned(Parser, AfterBangTag))) ]_vars

\* The next call meets a begin tag or an end tag: a '<' that is not followed
\* by '!'.
NameTagAhead ==
    /\ ParsesInput
    /\ StartsWith(Ahead, <<"<">>)
    /\ ~StartsWith(Ahead, <<"<", "!">>)

\* The parser as the first NextToken call of a call that meets the tag ahead
\* leaves it; q is the parser when the '<' has been eaten.
TokenAfter(q) ==
    IF q.cur = "/" THEN NextToken(NextChar(q), xmlDelimsWithEquals)
    ELSE IF q.cur = "?" THEN NextToken(NextChar(q), xmlDelimsWithSlash)
    ELSE NextToken(q, xmlDelimsWithSlash)

FirstToken == TokenAfter(NextChar(AccumulateWhiteSpace(Parser, <<>>).p))

\* All input characters have been consumed: none is current, none is unread.
AllConsumed(q) == q.cur = NUL /\ q.reader.pos = Len(q.reader.data)

\* C30: the NextToken call that reads the name of a tag returns false exactly
\* when the token it produced is empty and all input characters have been
\* consumed, over the memory-backed and over the file-backed source; so it
\* returns true with an empty token when it stops at a delimiter.
C30_NextTokenFailsIffExhausted ==
    NameTagAhead =>
        (~NextTokenOk(FirstToken) <=> (FirstToken.tok = <<>> /\ AllConsumed(FirstToken)))

-----------------------------------------------------------------------------
(* Tokens, the nesting stack, positions and session starts.                *)

\* The step is a NextToken call made on its own.
TokenCalled == tokens' = tokens + 1

\* The NextToken call starts, after leading whitespace, on a quote.
QuoteAhead ==
    /\ began = "true"
    /\ Ahead # <<>>
    /\ Head(Ahead) \in {"\"", "'"}

\* The characters behind the quote ahead.
Quoted == Tail(Ahead)

\* C31: a NextToken call that starts, after leading whitespace, on a single or
\* double quote produces the characters up to the next quote of the same
\* kind, delimiters and whitespace included, and consumes both quotes (and the
\* whitespace that follows); without a matching quote the token is all the
\* remaining input; in both cases the error text is left as it was.
C31_QuotedTokenIsVerbatim ==
    [][ (TokenCalled /\ QuoteAhead) =>
           /\ m_ErrorInfo' = m_ErrorInfo
           /\ IF Occurs(Quoted, <<Head(Ahead)>>)
              THEN /\ m_CurToken' = BeforeFirst(Quoted, <<Head(Ahead)>>)
                   /\ Upcoming' = DropWhiteSpace(AfterFirst(Quoted, <<Head(Ahead)>>))
              ELSE /\ m_CurToken' = Quoted
                   /\ Upcoming' = <<>> ]_vars

\* C31's case: on the text ' /' the first NextToken call has produced the
\* token of a space and a slash and has consumed the closing quote.
C31_Witness ==
    /\ tokens = 1
    /\ m_Reader.data = <<"'", " ", "/", "'">>
    /\ m_CurToken = <<" ", "/">>
    /\ m_CurChar = NUL
    /\ m_ErrorInfo = <<>>

\* The offsets recorded on the stack entries, from bottom to top.
StackOffsets == [i \in 1..Len(m_Stack) |-> m_Stack[i].m_Begin.offset]

\* Every element written in text is closed, open holding the names of the
\* elements that are open where text begins: each begin tag that is not
\* self-closing is followed by the end tag of its name, elements nest, and no
\* text stands outside of all elements.
RECURSIVE WellClosed(_, _)
WellClosed(text, open) ==
    IF text = <<>> THEN open = <<>>
    ELSE IF StartsWith(text, <<"<", "/">>)
    THEN LET name == RunOf(Drop(text, 2), NameStops)
             rest == Drop(text, 2 + Len(name))
         IN  /\ open # <<>>
             /\ Last(open) = name
             /\ StartsWith(rest, <<">">>)
             /\ WellClosed(Tail(rest), Front(open))
    ELSE IF StartsWith(text, <<"<", "!", "-", "-">>) /\ Occurs(Drop(text, 4), <<"-", "-", ">">>)
    THEN WellClosed(AfterFirst(Drop(text, 4), <<"-", "-", ">">>), open)
    ELSE IF StartsWith(text, <<"<", "!", "[">>) /\ Occurs(Drop(text, 3), <<"]", "]", ">">>)
    THEN WellClosed(AfterFirst(Drop(text, 3), <<"]", "]", ">">>), open)
    ELSE IF Head(text) = "<"
    THEN LET w == WrittenTag(text)
         IN  /\ w.ok
             /\ w.q <=> w.qend
             /\ WellClosed(w.rest, IF w.slash \/ w.q THEN open ELSE Append(open, w.name))
    ELSE /\ open # <<>> \/ iswspace(Head(text))
         /\ WellClosed(Tail(text), open)

\* A document in which every element is closed has been parsed to its end:
\* the input is exhausted and the last call has returned false.
ClosedDocumentParsed ==
    /\ began = "true"
    /\ ~hung
    /\ InputExhausted
    /\ ret = "false"
    /\ WellClosed(m_Reader.data, <<>>)

\* C32: in every state the offsets recorded on the stack entries are strictly
\* increasing from bottom to top; the stack is empty when a session has been
\* started and no call made, and when a document in which every element is
\* closed has been parsed to its end.
C32_StackOffsetsIncrease ==
    /\ StrictlyIncreasing(StackOffsets)
    /\ (began # "no" /\ calls = 0) => m_Stack = <<>>
    /\ ClosedDocumentParsed => m_Stack = <<>>

\* The number of events of one type among evts.
CountOf(evts, type) == Len(NamesOf(evts, type))

\* C33: after any sequence of NextNode calls of a session, failed calls
\* included, the depth of the nesting stack is the number of Open events
\* returned minus the number of Close events returned; so no prefix of the
\* event stream holds more Close events than Open events.
C33_DepthIsOpensMinusCloses ==
    /\ Len(m_Stack) = CountOf(events, "Begin") - CountOf(events, "End")
    /\ \A k \in 0..Len(events) :
          CountOf(SubSeq(events, 1, k), "End") <= CountOf(SubSeq(events, 1, k), "Begin")

\* C33's case: two Opens and one Close have been returned, the last call has
\* failed, and one element is on the stack.
C33_Witness ==
    /\ CountOf(events, "Begin") = 2
    /\ CountOf(events, "End") = 1
    /\ ret = "false"
    /\ m_ErrorInfo # <<>>
    /\ Len(m_Stack) = 1

\* C34: from the session start on, CurPosition is the number of characters
\* the input source has delivered and is at most the length the input source
\* reported at the session start; a NextNode call never decreases it.
C34_PositionCountsReads ==
    [][ /\ began' # "no" =>
             /\ CurPosition(Parser)' = m_Reader'.pos
             /\ CurPosition(Parser)' <= m_DataSize'
        /\ NextNodeCalled => CurPosition(Parser)' >= CurPosition(Parser) ]_vars

\* C34's case: calls have moved the position from the first character to the
\* end of an input of at least seven characters.
C34_Witness ==
    /\ began = "true"
    /\ calls >= 2
    /\ m_DataSize >= 7
    /\ CurPosition(Parser) = m_DataSize
    /\ m_Reader.pos = Len(m_Reader.data)

\* The next call parses a begin tag: behind the white space stands a '<' that
\* opens neither an end tag nor a '!' tag.
BeginTagAhead ==
    /\ NameTagAhead
    /\ ~StartsWith(Ahead, <<"<", "/">>)

\* A NextNode call has failed while it parsed a begin tag.
BeginTagFailed == NextNodeCalled /\ BeginTagAhead /\ ~hung' /\ ret' = "false"

\* C35: a NextNode call that fails while parsing a begin tag leaves the nesting
\* stack and the self-closing flag as they were before the call.
C35_FailedBeginTagLeavesState ==
    [][ BeginTagFailed =>
            /\ m_Stack' = m_Stack
            /\ m_PriorWasEmptyTag' = m_PriorWasEmptyTag ]_vars

\* C36: a Reset call and a successful session start leave the error text
\* empty, and a session that follows an earlier one on the same instance ends,
\* over a document in which every element is closed, with NextNode returning
\* false and an empty error text.
C36_NewSessionClearsError ==
    [][ /\ (ResetCalled \/ (SessionStarted /\ began' = "true")) => m_ErrorInfo' = <<>>
        /\ (sessions' >= 2 /\ ClosedDocumentParsed') => m_ErrorInfo' = <<>> ]_vars

\* C37: both built-in readers deliver every byte b of 0..255 as the character
\* with code b, and so deliver the same character for the same byte.
C37_ReadersDeliverTheByte ==
    readc # NoRead =>
        /\ readc.file = readc.byte
        /\ readc.memory = readc.byte
        /\ readc.file = readc.memory

\* The step starts a session on an input source: the file was found.
StartedOnInput == SessionStarted /\ m_Reader'.kind # "none"

\* The session start on an input of no character has failed.
EmptyInputStart == began = "false" /\ m_Reader.kind # "none" /\ m_Reader.data = <<>>

\* C38: a session start on an input of no character returns false and leaves
\* an error text, and the NextNode calls after it return false without a
\* node; a session start on an input of at least one character returns true
\* with CurPosition 1.
C38_EmptyInputFailsAtStart ==
    [][ /\ StartedOnInput =>
             IF m_Reader'.data = <<>>
             THEN began' = "false" /\ m_ErrorInfo' # <<>>
             ELSE began' = "true" /\ CurPosition(Parser)' = 1
        /\ (NextNodeCalled /\ EmptyInputStart) =>
             /\ ~hung'
             /\ ret' = "false"
             /\ events' = events
             /\ ptrref' = NoNode ]_vars

\* C38's case: the session start on an empty input has failed with the error
\* text of the empty document, and two NextNode calls have returned false.
C38_Witness ==
    /\ EmptyInputStart
    /\ calls = 2
    /\ ret = "false"
    /\ events = <<>>
    /\ m_ErrorInfo # <<>>

====
